---- MODULE Spec2Model ----
(***************************************************************************)
(* Model of the BI assistant MCP server: the two server programs           *)
(* (bi_server.py and server/bi_server.py), the SQLite store they query and *)
(* the campaign_performance view that db.py provisions.                    *)
(*                                                                         *)
(* Text is modelled at the character level (a string is a sequence of      *)
(* one-character strings) so that strip, upper, lower and startswith are   *)
(* computed, not assumed.  REAL values are exact rationals.                *)
(***************************************************************************)
EXTENDS Integers, Sequences, FiniteSets, TLC

VARIABLES
    impl,       \* which server program runs: "root" (bi_server.py) or "server" (server/bi_server.py)
    db,         \* self.db: 0 is None, n > 0 is the n-th connection the process opened
    store,      \* contents of the SQLite file
    call,       \* the tool invocation that ran last
    reply,      \* what that invocation returned to the dispatcher
    raised,     \* TRUE when that invocation ended with an exception instead of a reply
    io,         \* store I/O that invocation performed, in order
    db_before,  \* self.db when that invocation started
    store_before, \* contents of the SQLite file when that invocation started
    opens,      \* connections the process has opened so far
    view_rows,  \* last direct read of the campaign_performance view
    prev,       \* history: what the invocation before the last one came to
    tasks,      \* the tool invocations in flight when the dispatcher interleaves them
    database_url, \* os.getenv('DATABASE_URL', default): the configured locator
    db_path     \* self.db_path of bi_server.py, resolved in __init__ (server/bi_server.py has none)

vars == <<impl, db, store, call, reply, raised, io, db_before, store_before, opens,
          view_rows, prev, tasks, database_url, db_path>>

----------------------------------------------------------------------------
(* Bounds                                                                  *)

\* largest value of a numeric column in the view-formula specification
MaxVal == 3
\* products provisioned (db.py provisions 5)
NumProducts == 2
\* campaign months provisioned per product (db.py provisions 20)
NumMonths == 2
\* different random draws of the provisioned values
NumSeeds == 2
\* tool invocations the dispatcher may have in flight at once
NumCalls == 2

\* pieces in a DATABASE_URL value
MaxParts == 3

\* rows per table in the contents the view is read over
MaxRows == 2

----------------------------------------------------------------------------
(* Characters and strings                                                  *)

LowerChars ==
    <<"a", "b", "c", "d", "e", "f", "g", "h", "i", "j", "k", "l", "m",
      "n", "o", "p", "q", "r", "s", "t", "u", "v", "w", "x", "y", "z">>

UpperChars ==
    <<"A", "B", "C", "D", "E", "F", "G", "H", "I", "J", "K", "L", "M",
      "N", "O", "P", "Q", "R", "S", "T", "U", "V", "W", "X", "Y", "Z">>

\* characters in code-point order, for BINARY collation
Alphabet ==
    <<"\t", "\n", " ", "'", "(", ")", "*", ",", "/", "0", "1", "2", "3",
      "4", "5", "6", "7", "8", "9", ";", "=">>
    \o UpperChars \o <<"_">> \o LowerChars

IndexOf(c, chars) ==
    IF \E i \in 1..Len(chars) : chars[i] = c
    THEN CHOOSE i \in 1..Len(chars) : chars[i] = c
    ELSE 0

CharCode(c) == IndexOf(c, Alphabet)

IsSpace(c) == c \in {" ", "\t", "\n"}

UpperChar(c) ==
    IF IndexOf(c, LowerChars) > 0 THEN UpperChars[IndexOf(c, LowerChars)] ELSE c

LowerChar(c) ==
    IF IndexOf(c, UpperChars) > 0 THEN LowerChars[IndexOf(c, UpperChars)] ELSE c

\* str.upper()
upper(s) == [i \in 1..Len(s) |-> UpperChar(s[i])]

\* str.lower() and SQL LOWER()
lower(s) == [i \in 1..Len(s) |-> LowerChar(s[i])]

\* str.strip(): drop leading and trailing whitespace
strip(s) ==
    LET keep == {i \in 1..Len(s) : ~IsSpace(s[i])}
    IN  IF keep = {} THEN <<>>
        ELSE LET first == CHOOSE i \in keep : \A j \in keep : i <= j
                 last  == CHOOSE i \in keep : \A j \in keep : j <= i
             IN  SubSeq(s, first, last)

\* str.startswith(prefix)
startswith(s, prefix) ==
    /\ Len(s) >= Len(prefix)
    /\ SubSeq(s, 1, Len(prefix)) = prefix

\* BINARY collation order on text
RECURSIVE TextLess(_, _)
TextLess(s, t) ==
    IF t = <<>> THEN FALSE
    ELSE IF s = <<>> THEN TRUE
    ELSE IF s[1] # t[1] THEN CharCode(s[1]) < CharCode(t[1])
    ELSE TextLess(Tail(s), Tail(t))

RECURSIVE Concat(_)
Concat(ss) == IF ss = <<>> THEN <<>> ELSE Head(ss) \o Concat(Tail(ss))

----------------------------------------------------------------------------
(* SQL values: NULL or an exact rational                                   *)

SqlNull == [isnull |-> TRUE, num |-> 0, den |-> 1]

Rat(n, d) == [isnull |-> FALSE, num |-> n, den |-> d]

SqlInt(n) == Rat(n, 1)

\* a / b on REAL operands; SQLite yields NULL for a zero divisor
SqlDiv(a, b) ==
    IF a.isnull \/ b.isnull \/ b.num = 0 THEN SqlNull
    ELSE IF b.num > 0 THEN Rat(a.num * b.den, a.den * b.num)
    ELSE Rat(-(a.num * b.den), a.den * (-b.num))

SqlMul(a, b) ==
    IF a.isnull \/ b.isnull THEN SqlNull
    ELSE Rat(a.num * b.num, a.den * b.den)

SqlSub(a, b) ==
    IF a.isnull \/ b.isnull THEN SqlNull
    ELSE Rat(a.num * b.den - b.num * a.den, a.den * b.den)

\* ROUND(x, 2): nearest hundredth, halves away from zero
ROUND2(x) ==
    IF x.isnull THEN SqlNull
    ELSE IF x.num >= 0
         THEN Rat((2 * 100 * x.num + x.den) \div (2 * x.den), 100)
         ELSE Rat(-((2 * 100 * (-x.num) + x.den) \div (2 * x.den)), 100)

----------------------------------------------------------------------------
(* The campaign_performance view (db.py)                                   *)

\* the CASE expressions of the six computed columns, before ROUND
ctr_expr(mm, b) ==
    IF mm.clicks > 0 /\ mm.impressions > 0
    THEN SqlMul(SqlDiv(SqlInt(mm.clicks), SqlInt(mm.impressions)), SqlInt(100))
    ELSE SqlInt(0)

\* roas without the CASE guard on actual_spend
roas_expr_unguarded(mm, b) ==
    SqlDiv(SqlInt(mm.revenue), SqlInt(b.actual_spend))

roas_expr(mm, b) ==
    IF b.actual_spend > 0
    THEN SqlDiv(SqlInt(mm.revenue), SqlInt(b.actual_spend))
    ELSE SqlInt(0)

roi_expr(mm, b) ==
    IF b.actual_spend > 0
    THEN SqlDiv(SqlSub(SqlInt(mm.revenue), SqlInt(b.actual_spend)), SqlInt(b.actual_spend))
    ELSE SqlInt(0)

cpa_expr(mm, b) ==
    IF mm.conversions > 0 /\ b.actual_spend > 0
    THEN SqlDiv(SqlInt(b.actual_spend), SqlInt(mm.conversions))
    ELSE SqlInt(0)

cpc_expr(mm, b) ==
    IF mm.clicks > 0 /\ b.actual_spend > 0
    THEN SqlDiv(SqlInt(b.actual_spend), SqlInt(mm.clicks))
    ELSE SqlInt(0)

\* cpm scaled by 100 instead of 1000
cpm_expr_per_hundred(mm, b) ==
    IF mm.impressions > 0 /\ b.actual_spend > 0
    THEN SqlMul(SqlDiv(SqlInt(b.actual_spend), SqlInt(mm.impressions)), SqlInt(100))
    ELSE SqlInt(0)

cpm_expr(mm, b) ==
    IF mm.impressions > 0 /\ b.actual_spend > 0
    THEN SqlMul(SqlDiv(SqlInt(b.actual_spend), SqlInt(mm.impressions)), SqlInt(1000))
    ELSE SqlInt(0)

\* one row of the view's SELECT list
PerformanceRow(p, cm, mm, b) ==
    [product_name     |-> p.name,
     category         |-> p.category,
     month_number     |-> cm.month_number,
     year             |-> cm.year,
     campaign_name    |-> cm.campaign_name,
     impressions      |-> mm.impressions,
     clicks           |-> mm.clicks,
     conversions      |-> mm.conversions,
     revenue          |-> mm.revenue,
     allocated_budget |-> b.allocated_budget,
     actual_spend     |-> b.actual_spend,
     ctr_percentage   |-> ROUND2(ctr_expr(mm, b)),
     roas             |-> ROUND2(roas_expr(mm, b)),
     roi              |-> ROUND2(roi_expr(mm, b)),
     cpa              |-> ROUND2(cpa_expr(mm, b)),
     cpc              |-> ROUND2(cpc_expr(mm, b)),
     cpm              |-> ROUND2(cpm_expr(mm, b))]

\* ORDER BY p.name, cm.year, cm.month_number
ViewOrder(r1, r2) ==
    \/ TextLess(r1.product_name, r2.product_name)
    \/ /\ r1.product_name = r2.product_name
       /\ \/ r1.year < r2.year
          \/ (r1.year = r2.year /\ r1.month_number < r2.month_number)

\* ORDER BY product_name, month_number
AggregateOrder(r1, r2) ==
    \/ TextLess(r1.product_name, r2.product_name)
    \/ (r1.product_name = r2.product_name /\ r1.month_number < r2.month_number)

\* whether r1 sorts before r2 under the ORDER BY of the view or of the aggregate query
RowLess(order, r1, r2) ==
    IF order = "view" THEN ViewOrder(r1, r2) ELSE AggregateOrder(r1, r2)

\* the rows in the order an ORDER BY leaves them (rows that compare equal keep their order)
SortRows(s, order) ==
    LET rank(i) == 1 + Cardinality({j \in 1..Len(s) :
                        \/ RowLess(order, s[j], s[i])
                        \/ (~RowLess(order, s[i], s[j]) /\ j < i)})
    IN  [r \in 1..Len(s) |-> s[CHOOSE i \in 1..Len(s) : rank(i) = r]]

\* products JOIN campaign_months JOIN marketing_metrics JOIN budgets
campaign_performance(st) ==
    LET P  == st.products
        CM == st.campaign_months
        MM == st.marketing_metrics
        B  == st.budgets
        joined == Concat([i \in 1..Len(P) |->
                  Concat([j \in 1..Len(CM) |->
                    IF P[i].id # CM[j].product_id THEN <<>> ELSE
                  Concat([k \in 1..Len(MM) |->
                    IF CM[j].id # MM[k].campaign_month_id THEN <<>> ELSE
                  Concat([l \in 1..Len(B) |->
                    IF CM[j].id # B[l].campaign_month_id THEN <<>>
                    ELSE <<PerformanceRow(P[i], CM[j], MM[k], B[l])>>])])])])
    IN  SortRows(joined, "view")

----------------------------------------------------------------------------
(* Provisioning (db.py create_database)                                    *)

S_Product_ ==
    <<"P", "r", "o", "d", "u", "c", "t", " ">>
S_Campaign_ ==
    <<" ", "C", "a", "m", "p", "a", "i", "g", "n", " ">>
S_Electronics ==
    <<"E", "l", "e", "c", "t", "r", "o", "n", "i", "c", "s">>
S_Fashion ==
    <<"F", "a", "s", "h", "i", "o", "n">>
S_products ==
    <<"p", "r", "o", "d", "u", "c", "t", "s">>
S_campaign_months ==
    <<"c", "a", "m", "p", "a", "i", "g", "n", "_", "m", "o", "n", "t", "h", "s">>
S_marketing_metrics ==
    <<"m", "a", "r", "k", "e", "t", "i", "n", "g", "_", "m", "e", "t", "r", "i", "c", "s">>
S_budgets ==
    <<"b", "u", "d", "g", "e", "t", "s">>
S_sqlite_sequence ==
    <<"s", "q", "l", "i", "t", "e", "_", "s", "e", "q", "u", "e", "n", "c", "e">>
S_campaign_performance ==
    <<"c", "a", "m", "p", "a", "i", "g", "n", "_", "p", "e", "r", "f", "o", "r", "m", "a", "n", "c", "e">>

DigitChars == <<"0", "1", "2", "3", "4", "5", "6", "7", "8", "9">>

\* str(n) for n >= 0, as f-strings format it
RECURSIVE IntToText(_)
IntToText(n) ==
    IF n < 10 THEN <<DigitChars[n + 1]>>
    ELSE IntToText(n \div 10) \o <<DigitChars[(n % 10) + 1]>>

\* name of the product_id-th sample product: "Product A", "Product B", ...
ProductName(product_id) == S_Product_ \o <<UpperChars[product_id]>>

ProductCategory(product_id) ==
    IF product_id % 2 = 1 THEN S_Electronics ELSE S_Fashion

\* the values random.randint / random.uniform may produce, scaled down
Profiles ==
    <<[impressions |-> 1000, clicks |-> 40, conversions |-> 2, revenue |-> 1000,
       allocated_budget |-> 600, actual_spend |-> 500],
      [impressions |-> 300, clicks |-> 7, conversions |-> 3, revenue |-> 100,
       allocated_budget |-> 300, actual_spend |-> 300],
      [impressions |-> 800, clicks |-> 30, conversions |-> 1, revenue |-> 90,
       allocated_budget |-> 100, actual_spend |-> 70]>>

Profile(seed, cm_id) == Profiles[((cm_id + seed) % Len(Profiles)) + 1]

\* id that AUTOINCREMENT gives the campaign of (product_id, month)
CmId(product_id, month) == (product_id - 1) * NumMonths + month

\* the tables as create_database leaves them (date and timestamp columns,
\* which no claim reads, are left out)
create_database(seed) ==
    LET cms == Concat([product_id \in 1..NumProducts |->
                 [month \in 1..NumMonths |->
                    LET year == IF month <= 12 THEN 2024 ELSE 2025
                        m    == IF month <= 12 THEN month ELSE month - 12
                    IN  [id            |-> CmId(product_id, month),
                         product_id    |-> product_id,
                         month_number  |-> m,
                         year          |-> year,
                         campaign_name |-> ProductName(product_id) \o S_Campaign_
                                           \o IntToText(m) \o <<"/">> \o IntToText(year)]]])
    IN  [products |->
            [i \in 1..NumProducts |->
                [id |-> i, name |-> ProductName(i), category |-> ProductCategory(i)]],
         campaign_months |-> cms,
         marketing_metrics |->
            [c \in 1..Len(cms) |->
                [id |-> c, campaign_month_id |-> c,
                 impressions |-> Profile(seed, c).impressions,
                 clicks      |-> Profile(seed, c).clicks,
                 conversions |-> Profile(seed, c).conversions,
                 revenue     |-> Profile(seed, c).revenue]],
         budgets |->
            [c \in 1..Len(cms) |->
                [id |-> c, campaign_month_id |-> c,
                 allocated_budget |-> Profile(seed, c).allocated_budget,
                 actual_spend     |-> Profile(seed, c).actual_spend]],
         sqlite_sequence |->
            <<[name |-> S_products, seq |-> NumProducts],
              [name |-> S_campaign_months, seq |-> Len(cms)],
              [name |-> S_marketing_metrics, seq |-> Len(cms)],
              [name |-> S_budgets, seq |-> Len(cms)]>>]

\* a store holding one campaign month with the given column values
OneCampaignStore(impressions, clicks, conversions, revenue, actual_spend) ==
    [products |-> <<[id |-> 1, name |-> ProductName(1), category |-> ProductCategory(1)]>>,
     campaign_months |->
        <<[id |-> 1, product_id |-> 1, month_number |-> 5, year |-> 2024,
           campaign_name |-> ProductName(1) \o S_Campaign_ \o IntToText(5)
                             \o <<"/">> \o IntToText(2024)]>>,
     marketing_metrics |->
        <<[id |-> 1, campaign_month_id |-> 1, impressions |-> impressions,
           clicks |-> clicks, conversions |-> conversions, revenue |-> revenue]>>,
     budgets |->
        <<[id |-> 1, campaign_month_id |-> 1, allocated_budget |-> MaxVal,
           actual_spend |-> actual_spend]>>,
     sqlite_sequence |->
        <<[name |-> S_products, seq |-> 1],
          [name |-> S_campaign_months, seq |-> 1],
          [name |-> S_marketing_metrics, seq |-> 1],
          [name |-> S_budgets, seq |-> 1]>>]

----------------------------------------------------------------------------
(* The store as the servers see it through aiosqlite                       *)

K_SELECT ==
    <<"S", "E", "L", "E", "C", "T">>
K_WITH ==
    <<"W", "I", "T", "H">>
K_DELETE ==
    <<"D", "E", "L", "E", "T", "E">>
K_FROM ==
    <<"F", "R", "O", "M">>
K_AS ==
    <<"A", "S">>
S_sqlite_ ==
    <<"s", "q", "l", "i", "t", "e", "_">>
S_roas ==
    <<"r", "o", "a", "s">>
S_roi ==
    <<"r", "o", "i">>
S_ctr_percentage ==
    <<"c", "t", "r", "_", "p", "e", "r", "c", "e", "n", "t", "a", "g", "e">>
S_cpa ==
    <<"c", "p", "a">>
S_cpc ==
    <<"c", "p", "c">>
S_cpm ==
    <<"c", "p", "m">>
S_category ==
    <<"c", "a", "t", "e", "g", "o", "r", "y">>
S_product_name ==
    <<"p", "r", "o", "d", "u", "c", "t", "_", "n", "a", "m", "e">>
S_month_number ==
    <<"m", "o", "n", "t", "h", "_", "n", "u", "m", "b", "e", "r">>
S_year ==
    <<"y", "e", "a", "r">>
S_campaign_name ==
    <<"c", "a", "m", "p", "a", "i", "g", "n", "_", "n", "a", "m", "e">>
S_impressions ==
    <<"i", "m", "p", "r", "e", "s", "s", "i", "o", "n", "s">>
S_clicks ==
    <<"c", "l", "i", "c", "k", "s">>
S_conversions ==
    <<"c", "o", "n", "v", "e", "r", "s", "i", "o", "n", "s">>
S_revenue ==
    <<"r", "e", "v", "e", "n", "u", "e">>
S_allocated_budget ==
    <<"a", "l", "l", "o", "c", "a", "t", "e", "d", "_", "b", "u", "d", "g", "e", "t">>
S_actual_spend ==
    <<"a", "c", "t", "u", "a", "l", "_", "s", "p", "e", "n", "d">>

\* sqlite_master, in creation order; AUTOINCREMENT makes SQLite add
\* sqlite_sequence when the first table is created
Catalog ==
    <<[name |-> S_products, type |-> "table"],
      [name |-> S_sqlite_sequence, type |-> "table"],
      [name |-> S_campaign_months, type |-> "table"],
      [name |-> S_marketing_metrics, type |-> "table"],
      [name |-> S_budgets, type |-> "table"],
      [name |-> S_campaign_performance, type |-> "view"]>>

\* the columns of the view: the text of the name and the key it has in a fetched row
ViewColumns ==
    <<[text |-> S_product_name, key |-> "product_name"],
      [text |-> S_category, key |-> "category"],
      [text |-> S_month_number, key |-> "month_number"],
      [text |-> S_year, key |-> "year"],
      [text |-> S_campaign_name, key |-> "campaign_name"],
      [text |-> S_impressions, key |-> "impressions"],
      [text |-> S_clicks, key |-> "clicks"],
      [text |-> S_conversions, key |-> "conversions"],
      [text |-> S_revenue, key |-> "revenue"],
      [text |-> S_allocated_budget, key |-> "allocated_budget"],
      [text |-> S_actual_spend, key |-> "actual_spend"],
      [text |-> S_ctr_percentage, key |-> "ctr_percentage"],
      [text |-> S_roas, key |-> "roas"],
      [text |-> S_roi, key |-> "roi"],
      [text |-> S_cpa, key |-> "cpa"],
      [text |-> S_cpc, key |-> "cpc"],
      [text |-> S_cpm, key |-> "cpm"]>>

\* rows of a catalog entry; SQLite matches identifiers without regard to case
Relation(st, name) ==
    LET n == lower(name)
    IN  IF n = S_products THEN st.products
        ELSE IF n = S_campaign_months THEN st.campaign_months
        ELSE IF n = S_marketing_metrics THEN st.marketing_metrics
        ELSE IF n = S_budgets THEN st.budgets
        ELSE IF n = S_sqlite_sequence THEN st.sqlite_sequence
        ELSE campaign_performance(st)

IsRelation(name) == \E i \in 1..Len(Catalog) : Catalog[i].name = lower(name)

IsTable(name) ==
    \E i \in 1..Len(Catalog) : Catalog[i].name = lower(name) /\ Catalog[i].type = "table"

\* the store with every row of one table deleted
DeleteAll(st, name) ==
    LET n == lower(name)
    IN  [products          |-> IF n = S_products THEN <<>> ELSE st.products,
         campaign_months   |-> IF n = S_campaign_months THEN <<>> ELSE st.campaign_months,
         marketing_metrics |-> IF n = S_marketing_metrics THEN <<>> ELSE st.marketing_metrics,
         budgets           |-> IF n = S_budgets THEN <<>> ELSE st.budgets,
         sqlite_sequence   |-> IF n = S_sqlite_sequence THEN <<>> ELSE st.sqlite_sequence]

\* index of the first whitespace character of s, or Len(s) + 1
FirstSpace(s) ==
    IF \E i \in 1..Len(s) : IsSpace(s[i])
    THEN CHOOSE i \in 1..Len(s) : IsSpace(s[i]) /\ \A j \in 1..(i - 1) : ~IsSpace(s[j])
    ELSE Len(s) + 1

\* the whitespace-separated tokens of a statement
RECURSIVE Words(_)
Words(s) ==
    LET t == strip(s)
    IN  IF t = <<>> THEN <<>>
        ELSE <<SubSeq(t, 1, FirstSpace(t) - 1)>>
             \o Words(SubSeq(t, FirstSpace(t), Len(t)))

\* outcome of a store call: rows, or an exception with its message
Rows(rows, st) == [exc |-> FALSE, msg |-> "", rows |-> rows, store |-> st]

Fault(msg, st) == [exc |-> TRUE, msg |-> msg, rows |-> <<>>, store |-> st]

\* one statement without a WITH clause, as SQLite runs it in autocommit mode
RunStatement(st, w) ==
    LET u == [i \in 1..Len(w) |-> upper(w[i])]
    IN  IF u = <<K_SELECT, <<"1">> >> THEN Rows(<<[one |-> 1]>>, st)
        ELSE IF Len(u) = 4 /\ SubSeq(u, 1, 3) = <<K_SELECT, <<"*">>, K_FROM>>
        THEN IF IsRelation(w[4]) THEN Rows(Relation(st, w[4]), st)
             ELSE Fault("no such table", st)
        ELSE IF Len(u) = 3 /\ SubSeq(u, 1, 2) = <<K_DELETE, K_FROM>>
        THEN IF IsTable(w[3]) THEN Rows(<<>>, DeleteAll(st, w[3]))
             ELSE Fault("no such table", st)
        ELSE Fault("syntax error", st)

\* cursor = connection.execute(text); cursor.fetchall().  sqlite3 refuses
\* text holding more than one statement; a WITH clause may precede SELECT
\* and DELETE alike.
ExecuteText(st, text, fault) ==
    LET w0 == Words(text)
        w  == IF w0 # <<>> /\ w0[Len(w0)] = <<";">> THEN SubSeq(w0, 1, Len(w0) - 1) ELSE w0
        u  == [i \in 1..Len(w) |-> upper(w[i])]
    IN  IF fault THEN Fault("database fault", st)
        ELSE IF \E i \in 1..Len(w) : w[i] = <<";">>
        THEN Fault("You can only execute one statement at a time.", st)
        ELSE IF w # <<>> /\ u[1] = K_WITH
        THEN IF /\ Len(w) > 7
                /\ u[3] = K_AS
                /\ SubSeq(u, 4, 7) = << <<"(">>, K_SELECT, <<"1">>, <<")">> >>
             THEN RunStatement(st, SubSeq(w, 8, Len(w)))
             ELSE Fault("syntax error", st)
        ELSE RunStatement(st, w)

\* column lookup that compares identifiers with regard to case
ResolveColumn_case_sensitive(ident) ==
    IF \E i \in 1..Len(ViewColumns) : ViewColumns[i].text = ident
    THEN CHOOSE i \in 1..Len(ViewColumns) : ViewColumns[i].text = ident
    ELSE 0

\* the view column a projected identifier names, 0 when there is none
ResolveColumn(ident) ==
    IF \E i \in 1..Len(ViewColumns) : ViewColumns[i].text = lower(ident)
    THEN CHOOSE i \in 1..Len(ViewColumns) : ViewColumns[i].text = lower(ident)
    ELSE 0

\* SELECT product_name, month_number, year, campaign_name, impressions, clicks,
\*        conversions, revenue, actual_spend, <column>
\* FROM campaign_performance
\* WHERE LOWER(product_name) = LOWER(?) AND month_number = ? AND year = ?
ExecuteMetricLookup(st, column, product, month, year, fault) ==
    LET c    == ResolveColumn(column)
        keys == {"product_name", "month_number", "year", "campaign_name", "impressions",
                 "clicks", "conversions", "revenue", "actual_spend"}
        view == campaign_performance(st)
        hit(r) == /\ lower(r.product_name) = lower(product)
                  /\ r.month_number = month
                  /\ r.year = year
        found == SelectSeq(view, hit)
    IN  IF fault THEN Fault("database fault", st)
        ELSE IF c = 0 THEN Fault("no such column", st)
        ELSE Rows([i \in 1..Len(found) |->
                     [k \in keys \cup {ViewColumns[c].key} |-> found[i][k]]], st)

\* whether a view row satisfies one condition of the WHERE clause
Satisfies(r, cond, param) ==
    CASE cond = "year = ?" -> r.year = param
      [] cond = "LOWER(product_name) = LOWER(?)" -> lower(r.product_name) = lower(param)
      [] cond = "month_number = ?" -> r.month_number = param

\* SELECT * FROM campaign_performance WHERE <conditions joined by AND>
\* ORDER BY product_name, month_number
ExecuteAggregate(st, conditions, params, fault) ==
    LET view == campaign_performance(st)
        hit(r) == \A i \in 1..Len(conditions) : Satisfies(r, conditions[i], params[i])
    IN  IF fault THEN Fault("database fault", st)
        ELSE Rows(SortRows(SelectSeq(view, hit), "aggregate"), st)

----------------------------------------------------------------------------
(* Replies and calls                                                       *)

NoCall == [op |-> "none"]

NoReply == [kind |-> "none"]

\* no invocation has been delivered yet
NoPrev == [error |-> FALSE, open_failed |-> FALSE, schema |-> NoReply]

\* what is remembered of a delivered invocation: whether it replied with an
\* error, whether its connect failed, and its reply if it was a get_schema
\* none of whose store calls failed
Summary ==
    [error |-> reply.kind = "error",
     open_failed |-> \E i \in 1..Len(io) : io[i].ev = "connect" /\ ~io[i].ok,
     schema |-> IF reply.kind = "schema" /\ (\A i \in 1..Len(io) : ~io[i].fault)
                THEN reply ELSE NoReply]

\* the invocations the dispatcher may have in flight
Calls == 1..NumCalls

\* an invocation slot with no invocation in it
IdleTask == [pc |-> "idle", req |-> NoCall, left |-> 0, handles |-> {}, failed |-> FALSE]

----------------------------------------------------------------------------
(* The two server programs                                                 *)

\* rows fetched for the sample of a table
SampleLimit == 3

\* one store I/O performed by an invocation
\* (ok: it succeeded; fault: the environment made it fail)
Ev(ev, stmt, text, conds, ok, fault) ==
    [ev |-> ev, stmt |-> stmt, text |-> text, conds |-> conds, ok |-> ok, fault |-> fault]

\* an invocation whose schema reply comes with the sampled table emptied
Outcome_sampling_consumes_rows(exc, msg, rep, dbv, opn, st, evs) ==
    [exc |-> exc, msg |-> msg, reply |-> rep, db |-> dbv, opens |-> opn,
     store |-> IF rep.kind = "schema" THEN DeleteAll(st, S_products) ELSE st,
     io |-> evs]

\* where an invocation stands: an exception in flight or a value to return,
\* with the process state and the I/O so far
Outcome(exc, msg, rep, dbv, opn, st, evs) ==
    [exc |-> exc, msg |-> msg, reply |-> rep, db |-> dbv, opens |-> opn,
     store |-> st, io |-> evs]

ErrorReply(parts) == [kind |-> "error", error |-> parts]

S_sqlite_3 ==
    <<"s", "q", "l", "i", "t", "e", ":", "/", "/", "/">>
S_sqlite_2 ==
    <<"s", "q", "l", "i", "t", "e", ":", "/", "/">>
default_db ==
    <<"/", "s", "r", "c", "/", "b", "i", "_", "a", "s", "s", "i", "s", "t", "a", "n", "t", ".", "d", "b">>
server_default_url ==
    <<"s", "q", "l", "i", "t", "e", ":", "/", "/", "/", "D", ":", "/", "C", "o", "n", "f", "i", "z", "/", "P", "r", "o", "j", "e", "c", "t", " ", "8", "-", " ", "A", "I", " ", "P", "o", "w", "e", "r", "e", "d", " ", "B", "I", " ", "B", "o", "t", "/", "m", "o", "d", "e", "l", "/", "d", "b", "/", "b", "i", "_", "a", "s", "s", "i", "s", "t", "a", "n", "t", ".", "d", "b">>

\* str.replace(old, new): every occurrence of old, found from the left
\* without overlap, becomes new
RECURSIVE replace(_, _, _)
replace(s, old, new) ==
    IF s = <<>> THEN <<>>
    ELSE IF startswith(s, old)
    THEN new \o replace(SubSeq(s, Len(old) + 1, Len(s)), old, new)
    ELSE <<s[1]>> \o replace(Tail(s), old, new)

\* the locator used when DATABASE_URL is not set
default_url(prog) ==
    IF prog = "root" THEN S_sqlite_3 \o default_db ELSE server_default_url

\* bi_server.py: db_url.replace("sqlite:///", "").replace("sqlite://", "")
_get_db_path(db_url) == replace(replace(db_url, S_sqlite_3, <<>>), S_sqlite_2, <<>>)

\* self.db_path after __init__: only bi_server.py resolves the locator there
construct_db_path(prog, db_url) ==
    IF prog = "root" THEN _get_db_path(db_url) ELSE <<>>

\* server/bi_server.py: db_path = database_url.replace("sqlite:///", "")
initialize_db_path(db_url) == replace(db_url, S_sqlite_3, <<>>)

\* bi_server.py: connect unless self.db is set; a failed connect leaves
\* self.db as it was and re-raises
_init_db(dbv, opn, st, open_ok) ==
    IF dbv # 0 THEN Outcome(FALSE, "", NoReply, dbv, opn, st, <<>>)
    ELSE IF open_ok
    THEN Outcome(FALSE, "", NoReply, opn + 1, opn + 1, st,
                 <<Ev("connect", "", db_path, <<>>, TRUE, FALSE)>>)
    ELSE Outcome(TRUE, "unable to open database file", NoReply, dbv, opn, st,
                 <<Ev("connect", "", db_path, <<>>, FALSE, TRUE)>>)

\* server/bi_server.py: connect and assign self.db; a failed connect
\* leaves self.db as it was and re-raises
initialize_db(dbv, opn, st, open_ok) ==
    IF open_ok
    THEN Outcome(FALSE, "", NoReply, opn + 1, opn + 1, st,
                 <<Ev("connect", "", initialize_db_path(database_url), <<>>, TRUE, FALSE)>>)
    ELSE Outcome(TRUE, "unable to open database file", NoReply, dbv, opn, st,
                 <<Ev("connect", "", initialize_db_path(database_url), <<>>, FALSE, TRUE)>>)

\* an acquisition that tries a failed connect a second time
acquire_retry_once(prog, dbv, opn, st, open_ok) ==
    IF dbv # 0 THEN Outcome(FALSE, "", NoReply, dbv, opn, st, <<>>)
    ELSE IF open_ok THEN initialize_db(dbv, opn, st, TRUE)
    ELSE Outcome(TRUE, "unable to open database file", NoReply, dbv, opn, st,
                 initialize_db(dbv, opn, st, FALSE).io \o initialize_db(dbv, opn, st, FALSE).io)

\* first statement of every try block: await self._init_db(), or
\* if not self.db: await self.initialize_db()
acquire(prog, dbv, opn, st, open_ok) ==
    IF prog = "root" THEN _init_db(dbv, opn, st, open_ok)
    ELSE IF dbv = 0 THEN initialize_db(dbv, opn, st, open_ok)
    ELSE Outcome(FALSE, "", NoReply, dbv, opn, st, <<>>)

\* an except clause that also drops the connection
Catch_closing(o, prefix) ==
    IF o.exc
    THEN [o EXCEPT !.exc = FALSE, !.msg = "", !.reply = ErrorReply(<<prefix, o.msg>>),
                   !.db = 0]
    ELSE o

\* a try block whose except clause lets the exception through
Catch_reraise(o, prefix) == o

\* except Exception as e: return {"error": prefix + str(e)}
Catch(o, prefix) ==
    IF o.exc
    THEN [o EXCEPT !.exc = FALSE, !.msg = "", !.reply = ErrorReply(<<prefix, o.msg>>)]
    ELSE o

\* a reply that reports an empty result as an error
DataReply_error_when_empty(rows) ==
    IF rows = <<>> THEN ErrorReply(<<"No data found">>)
    ELSE [kind |-> "data", data |-> rows, row_count |-> Len(rows)]

\* a reply that takes row_count from cursor.rowcount, which is -1 for a SELECT
DataReply_cursor_rowcount(rows) ==
    [kind |-> "data", data |-> rows, row_count |-> -1]

\* {"data": result, "row_count": len(result)}
DataReply(rows) ==
    LET result == [i \in 1..Len(rows) |-> rows[i]]
    IN  [kind |-> "data", data |-> result, row_count |-> Len(result)]

\* a guard that only rejects the empty query
run_sql_guard_nonempty_only(query) ==
    IF strip(query) = <<>> THEN "empty" ELSE "ok"

\* the checks run_sql makes before its try block: "empty", "disallowed" or "ok"
run_sql_guard(query) ==
    LET query_upper == upper(strip(query))
    IN  IF strip(query) = <<>> THEN "empty"
        ELSE IF ~(startswith(query_upper, K_SELECT) \/ startswith(query_upper, K_WITH))
        THEN "disallowed"
        ELSE "ok"

\* the run_sql tool of either program
run_sql(prog, dbv, opn, st, query, open_ok, fault) ==
    LET verdict == run_sql_guard(query)
        \* bi_server.py executes the text as received, server/bi_server.py the stripped text
        text == IF prog = "root" THEN query ELSE strip(query)
        c == acquire(prog, dbv, opn, st, open_ok)
        e == ExecuteText(st, text, fault)
        ev == Ev("execute", "adhoc", text, <<>>, ~e.exc, fault)
        body == IF c.exc THEN c
                ELSE IF e.exc
                THEN Outcome(TRUE, e.msg, NoReply, c.db, c.opens, e.store, c.io \o <<ev>>)
                ELSE Outcome(FALSE, "", DataReply(e.rows), c.db, c.opens, e.store,
                             c.io \o <<ev>>)
    IN  IF verdict = "empty"
        THEN Outcome(FALSE, "",
                     ErrorReply(<<IF prog = "root" THEN "Empty query provided"
                                  ELSE "No query provided">>),
                     dbv, opn, st, <<>>)
        ELSE IF verdict = "disallowed"
        THEN Outcome(FALSE, "",
                     ErrorReply(<<IF prog = "root"
                                  THEN "Only SELECT and WITH queries are allowed"
                                  ELSE "Only SELECT queries are allowed">>),
                     dbv, opn, st, <<>>)
        ELSE Catch(body, "SQL Error: ")

\* month: int = None, an optional integer: None when the caller omits it,
\* <<n>> when the caller supplies n
None == <<>>

\* `if month:` is taken for a supplied month other than 0
truthy(month) == month # None /\ month[1] # 0

\* conditions and parameters of the WHERE clause, in the order each program
\* appends them; a product of "" and a month of None or 0 are falsy
where_clause(prog, product, month, year) ==
    LET p == IF product # <<>>
             THEN <<[cond |-> "LOWER(product_name) = LOWER(?)", param |-> product]>>
             ELSE <<>>
        m == IF truthy(month)
             THEN <<[cond |-> "month_number = ?", param |-> month[1]]>>
             ELSE <<>>
        y == <<[cond |-> "year = ?", param |-> year]>>
    IN  IF prog = "root" THEN y \o p \o m ELSE p \o m \o y

\* get_campaign_metrics (bi_server.py) and aggregate_campaign (server/bi_server.py)
get_campaign_metrics(prog, dbv, opn, st, product, month, year, open_ok, fault) ==
    LET c == acquire(prog, dbv, opn, st, open_ok)
        w == where_clause(prog, product, month, year)
        conditions == [i \in 1..Len(w) |-> w[i].cond]
        params == [i \in 1..Len(w) |-> w[i].param]
        e == ExecuteAggregate(st, conditions, params, fault)
        ev == Ev("execute", "aggregate", <<>>, conditions, ~e.exc, fault)
        body == IF c.exc THEN c
                ELSE IF e.exc
                THEN Outcome(TRUE, e.msg, NoReply, c.db, c.opens, e.store, c.io \o <<ev>>)
                ELSE Outcome(FALSE, "", DataReply(e.rows), c.db, c.opens, e.store,
                             c.io \o <<ev>>)
    IN  Catch(body, "")

valid_metrics == <<S_roas, S_roi, S_ctr_percentage, S_cpa, S_cpc, S_cpm>>

InList(x, list) == \E i \in 1..Len(list) : list[i] = x

\* the checks made before the try block: bi_server.py requires the three
\* parameters and validates the metric; server/bi_server.py only requires
\* the three parameters
metric_checks(prog, product, month, metric) ==
    IF product = <<>> \/ month = 0 \/ metric = <<>> THEN "missing"
    ELSE IF prog = "root" /\ ~InList(lower(metric), valid_metrics) THEN "invalid"
    ELSE "ok"

\* a not-found reply that does not say what was asked for
not_found_generic(prog, product, month, year) ==
    ErrorReply(<<<<"N", "o", " ", "d", "a", "t", "a", " ", "f", "o", "u", "n", "d">>>>)

\* {"error": f"No data found for {product} month {month}/{year}"}, and
\* f"No data found for {product} {month}/{year}" in server/bi_server.py
not_found(prog, product, month, year) ==
    ErrorReply(<<Concat(<<
        <<"N", "o", " ", "d", "a", "t", "a", " ", "f", "o", "u", "n", "d", " ", "f", "o", "r", " ">>,
        product,
        IF prog = "root" THEN <<" ", "m", "o", "n", "t", "h", " ">> ELSE <<" ">>,
        IntToText(month), <<"/">>, IntToText(year)>>)>>)

\* calculate_metric (bi_server.py) and compute_metric (server/bi_server.py)
calculate_metric(prog, dbv, opn, st, product, month, metric, year, open_ok, fault) ==
    LET verdict == metric_checks(prog, product, month, metric)
        c == acquire(prog, dbv, opn, st, open_ok)
        \* the f-string puts the caller's text into the projection list
        e == ExecuteMetricLookup(st, metric, product, month, year, fault)
        ev == Ev("execute", "metric_lookup", metric, <<>>, ~e.exc, fault)
        \* cursor.fetchone()
        body == IF c.exc THEN c
                ELSE IF e.exc
                THEN Outcome(TRUE, e.msg, NoReply, c.db, c.opens, e.store, c.io \o <<ev>>)
                ELSE IF e.rows = <<>>
                THEN Outcome(FALSE, "", not_found(prog, product, month, year),
                             c.db, c.opens, e.store, c.io \o <<ev>>)
                ELSE Outcome(FALSE, "", [kind |-> "row", row |-> e.rows[1]],
                             c.db, c.opens, e.store, c.io \o <<ev>>)
    IN  IF verdict = "missing"
        THEN Outcome(FALSE, "",
                     ErrorReply(<<IF prog = "root"
                                  THEN "product, month, and metric are required"
                                  ELSE "product, month, metric required">>),
                     dbv, opn, st, <<>>)
        ELSE IF verdict = "invalid"
        THEN Outcome(FALSE, "", ErrorReply(<<"Invalid metric. Valid options: ">>),
                     dbv, opn, st, <<>>)
        ELSE Catch(body, IF prog = "root" THEN "Metric calculation failed: "
                         ELSE "Error computing metric: ")

\* one row of PRAGMA table_info: name, declared type, notnull flag, default
Col(name, type, notnull, dflt) ==
    [name |-> name, type |-> type, notnull |-> notnull, dflt |-> dflt]

\* PRAGMA table_info(<table>) for the tables db.py creates
table_info(name) ==
    IF name = S_products THEN
        <<Col("id", "INTEGER", 0, "NULL"), Col("name", "TEXT", 1, "NULL"),
          Col("category", "TEXT", 0, "NULL"), Col("launch_date", "DATE", 0, "NULL"),
          Col("created_at", "TIMESTAMP", 0, "CURRENT_TIMESTAMP")>>
    ELSE IF name = S_campaign_months THEN
        <<Col("id", "INTEGER", 0, "NULL"), Col("product_id", "INTEGER", 0, "NULL"),
          Col("month_number", "INTEGER", 1, "NULL"), Col("year", "INTEGER", 1, "NULL"),
          Col("campaign_name", "TEXT", 0, "NULL"), Col("start_date", "DATE", 0, "NULL"),
          Col("end_date", "DATE", 0, "NULL"), Col("status", "TEXT", 0, "'active'"),
          Col("created_at", "TIMESTAMP", 0, "CURRENT_TIMESTAMP")>>
    ELSE IF name = S_marketing_metrics THEN
        <<Col("id", "INTEGER", 0, "NULL"), Col("campaign_month_id", "INTEGER", 0, "NULL"),
          Col("impressions", "INTEGER", 0, "0"), Col("clicks", "INTEGER", 0, "0"),
          Col("conversions", "INTEGER", 0, "0"), Col("revenue", "REAL", 0, "0.00"),
          Col("created_at", "TIMESTAMP", 0, "CURRENT_TIMESTAMP"),
          Col("updated_at", "TIMESTAMP", 0, "CURRENT_TIMESTAMP")>>
    ELSE IF name = S_budgets THEN
        <<Col("id", "INTEGER", 0, "NULL"), Col("campaign_month_id", "INTEGER", 0, "NULL"),
          Col("allocated_budget", "REAL", 1, "NULL"), Col("actual_spend", "REAL", 0, "0.00"),
          Col("created_at", "TIMESTAMP", 0, "CURRENT_TIMESTAMP"),
          Col("updated_at", "TIMESTAMP", 0, "CURRENT_TIMESTAMP")>>
    ELSE IF name = S_sqlite_sequence THEN
        <<Col("name", "", 0, "NULL"), Col("seq", "", 0, "NULL")>>
    ELSE <<>>

\* SELECT name FROM sqlite_master WHERE type='table'
CatalogTables ==
    LET isTable(e) == e.type = "table"
        t == SelectSeq(Catalog, isTable)
    IN  [i \in 1..Len(t) |-> t[i].name]

\* the entry of schema_info["columns"] built from one table_info row
ColumnEntry(col) ==
    [name |-> col.name, type |-> col.type, nullable |-> (col.notnull = 0),
     default |-> col.dflt]

\* the loop of get_schema lists every catalog table
is_system_table_never(table_name) == FALSE

\* table_name.startswith("sqlite_"): the tables the loop of get_schema skips
is_system_table(table_name) == startswith(table_name, S_sqlite_)

\* a failed sample fetch leaves an empty list of rows
sample_data_empty_on_failure(st, table_name, fails) ==
    [present |-> TRUE,
     rows |-> IF fails THEN <<>>
              ELSE SubSeq(Relation(st, table_name), 1,
                          IF Len(Relation(st, table_name)) < SampleLimit
                          THEN Len(Relation(st, table_name)) ELSE SampleLimit)]

\* schema_info[table_name]["sample_data"]: None until SELECT * FROM
\* <table_name> LIMIT 3 has succeeded, its rows afterwards; the inner
\* try/except swallows the failure of that one statement
sample_data(st, table_name, fails) ==
    IF fails THEN [present |-> FALSE, rows |-> <<>>]
    ELSE [present |-> TRUE,
          rows |-> SubSeq(Relation(st, table_name), 1,
                          IF Len(Relation(st, table_name)) < SampleLimit
                          THEN Len(Relation(st, table_name)) ELSE SampleLimit)]

\* get_schema of either program.  fault_stage says which store call faults:
\* "none", "catalog", or "columns" / "sample" for the table named fault_table.
get_schema(prog, dbv, opn, st, open_ok, fault_stage, fault_table) ==
    LET c == acquire(prog, dbv, opn, st, open_ok)
        tables == CatalogTables
        keep(table_name) == ~is_system_table(table_name)
        listed == SelectSeq(tables, keep)
        \* position in listed of the table whose PRAGMA faults, 0 if none
        stop == IF fault_stage = "columns" THEN IndexOf(fault_table, listed) ELSE 0
        sampleFails(n) == fault_stage = "sample" /\ fault_table = n
        last == IF stop > 0 THEN stop ELSE Len(listed)
        evs == <<Ev("execute", "catalog", <<>>, <<>>, fault_stage # "catalog",
                      fault_stage = "catalog")>>
               \o (IF fault_stage = "catalog" THEN <<>>
                   ELSE Concat([i \in 1..last |->
                          <<Ev("execute", "table_info", listed[i], <<>>, i # stop, i = stop)>>
                          \o (IF i = stop THEN <<>>
                              ELSE <<Ev("execute", "sample", listed[i], <<>>,
                                        ~sampleFails(listed[i]),
                                        sampleFails(listed[i]))>>)]))
        schema_info ==
            [n \in {listed[i] : i \in 1..Len(listed)} |->
                [columns |-> [j \in 1..Len(table_info(n)) |-> ColumnEntry(table_info(n)[j])],
                 sample_data |-> sample_data(st, n, sampleFails(n))]]
        body == IF c.exc THEN c
                ELSE IF fault_stage = "catalog" \/ stop > 0
                THEN Outcome(TRUE, "database fault", NoReply, c.db, c.opens, st, c.io \o evs)
                ELSE Outcome(FALSE, "",
                             [kind |-> "schema", tables |-> schema_info,
                              views |-> {"campaign_performance"},
                              key_metrics |-> {"ROAS", "ROI", "CTR", "CPA", "CPC", "CPM"}],
                             c.db, c.opens, st, c.io \o evs)
    IN  Catch(body, IF prog = "root" THEN "Schema retrieval failed: "
                    ELSE "Error retrieving schema: ")

----------------------------------------------------------------------------
(* Spec: tool invocations served one after another by either program       *)

Q_empty ==
    <<>>
Q_blank ==
    <<" ", "\n", " ">>
Q_select_view ==
    <<"S", "E", "L", "E", "C", "T", " ", "*", " ", "F", "R", "O", "M", " ", "c", "a", "m", "p", "a", "i", "g", "n", "_", "p", "e", "r", "f", "o", "r", "m", "a", "n", "c", "e">>
Q_select_products_padded ==
    <<" ", " ", "s", "e", "l", "e", "c", "t", " ", "*", " ", "f", "r", "o", "m", " ", "P", "r", "o", "d", "u", "c", "t", "s", "\n">>
Q_delete ==
    <<"D", "E", "L", "E", "T", "E", " ", "F", "R", "O", "M", " ", "p", "r", "o", "d", "u", "c", "t", "s">>
Q_delete_padded ==
    <<" ", "\t", "d", "e", "l", "e", "t", "e", " ", "f", "r", "o", "m", " ", "p", "r", "o", "d", "u", "c", "t", "s">>
Q_with_select ==
    <<"W", "I", "T", "H", " ", "c", " ", "A", "S", " ", "(", " ", "S", "E", "L", "E", "C", "T", " ", "1", " ", ")", " ", "S", "E", "L", "E", "C", "T", " ", "*", " ", "F", "R", "O", "M", " ", "b", "u", "d", "g", "e", "t", "s">>
Q_with_delete ==
    <<"w", "i", "t", "h", " ", "c", " ", "a", "s", " ", "(", " ", "s", "e", "l", "e", "c", "t", " ", "1", " ", ")", " ", "d", "e", "l", "e", "t", "e", " ", "f", "r", "o", "m", " ", "p", "r", "o", "d", "u", "c", "t", "s">>
Q_stacked ==
    <<"S", "E", "L", "E", "C", "T", " ", "1", " ", ";", " ", "D", "E", "L", "E", "T", "E", " ", "F", "R", "O", "M", " ", "p", "r", "o", "d", "u", "c", "t", "s">>
Q_selectx ==
    <<"S", "E", "L", "E", "C", "T", "X">>
Q_no_table ==
    <<"S", "E", "L", "E", "C", "T", " ", "*", " ", "F", "R", "O", "M", " ", "n", "o", "s", "u", "c", "h">>
Q_sel ==
    <<"S", "E", "L">>
Q_select_one ==
    <<"S", "e", "l", "e", "c", "t", " ", "1">>
M_ROAS ==
    <<"R", "O", "A", "S">>
M_Roi ==
    <<"R", "o", "i">>
M_invalid_name ==
    <<"i", "n", "v", "a", "l", "i", "d", "_", "n", "a", "m", "e">>
P_lower ==
    <<"p", "r", "o", "d", "u", "c", "t", " ", "a">>
P_upper ==
    <<"P", "R", "O", "D", "U", "C", "T", " ", "B">>
P_unknown ==
    <<"P", "r", "o", "d", "u", "c", "t", " ", "Z">>

\* ad-hoc statements the dispatcher may pass to run_sql
Queries ==
    {Q_empty, Q_blank, Q_select_view, Q_select_products_padded, Q_delete,
     Q_delete_padded, Q_with_select, Q_with_delete, Q_stacked, Q_selectx,
     Q_no_table, Q_sel, Q_select_one}

\* product arguments: omitted, two provisioned names in other letter cases, an unknown name
ProductArgs == {<<>>, P_lower, P_upper, P_unknown}

\* month arguments of calculate_metric (month: int): the provisioned months and 0
MonthArgs == 0..NumMonths

\* month arguments of get_campaign_metrics (month: int = None): omitted, or
\* one of the above
OptMonthArgs == {None} \cup {<<m>> : m \in MonthArgs}

\* year arguments: the provisioned year and one without campaigns
YearArgs == {2024, 2025}

\* metric arguments: allow-listed names in several letter cases, an unknown
\* name, a view column outside the allow-list, and an empty one
MetricArgs == {S_cpm, M_ROAS, M_Roi, S_ctr_percentage, M_invalid_name, S_category, <<>>}

\* tables whose column or sample fetch may fault during get_schema
FaultTables == {S_products, S_campaign_months, S_marketing_metrics, S_budgets}

\* outcomes of aiosqlite.connect; only drawn when a connect can happen
OpenOutcomes == IF db = 0 THEN BOOLEAN ELSE {TRUE}

Init ==
    /\ impl \in {"root", "server"}
    /\ db = 0
    /\ opens = 0
    /\ \E seed \in 1..NumSeeds : store = create_database(seed)
    /\ call = NoCall
    /\ reply = NoReply
    /\ raised = FALSE
    /\ io = <<>>
    /\ db_before = 0
    /\ store_before = store
    /\ view_rows = <<>>
    /\ prev = NoPrev
    /\ tasks = [c \in Calls |-> IdleTask]
    /\ database_url = default_url(impl)
    /\ db_path = construct_db_path(impl, database_url)

\* the dispatcher is idle: it runs one tool function at a time
Idle == call = NoCall

\* an invocation runs to its end: the dispatcher gets the reply or the exception
Finish(c, o) ==
    /\ Idle
    /\ call' = c
    /\ reply' = IF o.exc THEN NoReply ELSE o.reply
    /\ raised' = o.exc
    /\ db' = o.db
    /\ opens' = o.opens
    /\ store' = o.store
    /\ io' = o.io
    /\ db_before' = db
    /\ store_before' = store
    /\ UNCHANGED <<impl, view_rows, prev, tasks, database_url, db_path>>

\* the store calls of get_schema that may fault: none, the catalog query,
\* or the column or sample fetch of one table
SchemaFaults ==
    {<<"none", <<>> >>, <<"catalog", <<>> >>}
    \cup ({"columns", "sample"} \X FaultTables)

GetSchema ==
    \E open_ok \in OpenOutcomes, f \in SchemaFaults :
        Finish([op |-> "get_schema"],
               get_schema(impl, db, opens, store, open_ok, f[1], f[2]))

RunSql ==
    \E query \in Queries, open_ok \in OpenOutcomes, fault \in BOOLEAN :
        Finish([op |-> "run_sql", query |-> query],
               run_sql(impl, db, opens, store, query, open_ok, fault))

GetCampaignMetrics ==
    \E product \in ProductArgs, month \in OptMonthArgs, year \in YearArgs,
       open_ok \in OpenOutcomes, fault \in BOOLEAN :
        Finish([op |-> "get_campaign_metrics", product |-> product, month |-> month,
                year |-> year],
               get_campaign_metrics(impl, db, opens, store, product, month, year,
                                    open_ok, fault))

CalculateMetric ==
    \E product \in ProductArgs, month \in MonthArgs, metric \in MetricArgs,
       year \in YearArgs, open_ok \in OpenOutcomes, fault \in BOOLEAN :
        Finish([op |-> "calculate_metric", product |-> product, month |-> month,
                metric |-> metric, year |-> year],
               calculate_metric(impl, db, opens, store, product, month, metric, year,
                                open_ok, fault))

\* the dispatcher hands the reply to its caller and is idle again
Deliver ==
    /\ ~Idle
    /\ call' = NoCall
    /\ reply' = NoReply
    /\ raised' = FALSE
    /\ io' = <<>>
    /\ db_before' = db
    /\ store_before' = store
    /\ prev' = Summary
    /\ UNCHANGED <<impl, db, opens, store, view_rows, tasks, database_url, db_path>>

Next ==
    \/ GetSchema
    \/ RunSql
    \/ GetCampaignMetrics
    \/ CalculateMetric
    \/ Deliver

Spec == Init /\ [][Next]_vars

----------------------------------------------------------------------------
(* SpecView: the view formulas over every bounded campaign month           *)

InitView ==
    /\ impl = "root"
    /\ db = 0
    /\ \E impressions \in 0..MaxVal, clicks \in 0..MaxVal, conversions \in 0..MaxVal,
          revenue \in 0..MaxVal, actual_spend \in 0..MaxVal :
          store = OneCampaignStore(impressions, clicks, conversions, revenue, actual_spend)
    /\ call = NoCall
    /\ reply = NoReply
    /\ raised = FALSE
    /\ io = <<>>
    /\ db_before = 0
    /\ store_before = store
    /\ opens = 0
    /\ view_rows = <<>>
    /\ prev = NoPrev
    /\ tasks = [c \in Calls |-> IdleTask]
    /\ database_url = default_url(impl)
    /\ db_path = construct_db_path(impl, database_url)

\* SELECT * FROM campaign_performance, read directly from the store
ReadView ==
    /\ view_rows' = campaign_performance(store)
    /\ UNCHANGED <<impl, db, store, call, reply, raised, io, db_before, store_before,
                   opens, prev,
                   tasks, database_url, db_path>>

NextView == ReadView

SpecView == InitView /\ [][NextView]_vars

----------------------------------------------------------------------------
(* SpecLocator: the server started under every bounded DATABASE_URL        *)

L_file ==
    <<"b", "i", ".", "d", "b">>

\* the pieces locators are put together from
LocatorParts == {S_sqlite_3, S_sqlite_2, <<"/">>, L_file}

\* values of DATABASE_URL: every sequence of at most MaxParts pieces
Locators ==
    {Concat(parts) : parts \in UNION {[1..n -> LocatorParts] : n \in 0..MaxParts}}

InitLocator ==
    /\ impl \in {"root", "server"}
    /\ db = 0
    /\ opens = 0
    /\ store = create_database(1)
    /\ call = NoCall
    /\ reply = NoReply
    /\ raised = FALSE
    /\ io = <<>>
    /\ db_before = 0
    /\ store_before = store
    /\ view_rows = <<>>
    /\ prev = NoPrev
    /\ tasks = [c \in Calls |-> IdleTask]
    /\ database_url \in Locators \cup {default_url(impl)}
    /\ db_path = construct_db_path(impl, database_url)

\* get_schema on a store without faults
SchemaRequest ==
    \E open_ok \in OpenOutcomes :
        Finish([op |-> "get_schema"],
               get_schema(impl, db, opens, store, open_ok, "none", <<>>))

\* run_sql with a statement the guard lets through
SqlRequest ==
    \E open_ok \in OpenOutcomes :
        Finish([op |-> "run_sql", query |-> Q_select_one],
               run_sql(impl, db, opens, store, Q_select_one, open_ok, FALSE))

NextLocator ==
    \/ SchemaRequest
    \/ SqlRequest
    \/ Deliver

SpecLocator == InitLocator /\ [][NextLocator]_vars

----------------------------------------------------------------------------
(* SpecSchema: the view over every bounded content the tables accept       *)

\* the constraints of the CREATE TABLE statements: the INTEGER PRIMARY KEY
\* of each table, products.name UNIQUE and campaign_months
\* UNIQUE(product_id, month_number, year).  The FOREIGN KEY clauses are not
\* enforced (no PRAGMA foreign_keys = ON), and marketing_metrics and budgets
\* declare nothing on campaign_month_id.
SchemaAllows(st) ==
    LET P  == st.products
        CM == st.campaign_months
        MM == st.marketing_metrics
        B  == st.budgets
    IN  /\ \A i, j \in 1..Len(P) : i # j => P[i].id # P[j].id /\ P[i].name # P[j].name
        /\ \A i, j \in 1..Len(CM) : i # j =>
              /\ CM[i].id # CM[j].id
              /\ <<CM[i].product_id, CM[i].month_number, CM[i].year>>
                    # <<CM[j].product_id, CM[j].month_number, CM[j].year>>
        /\ \A i, j \in 1..Len(MM) : i # j => MM[i].id # MM[j].id
        /\ \A i, j \in 1..Len(B) : i # j => B[i].id # B[j].id

\* contents of at most max_rows rows per table, inserted as create_database
\* inserts them (ids from AUTOINCREMENT), that the constraints accept
StoreContents(max_rows) ==
    LET Upto(S) == UNION {[1..n -> S] : n \in 0..max_rows}
        unchecked ==
          {[products |->
               [i \in DOMAIN names |->
                   [id |-> i, name |-> names[i], category |-> ProductCategory(i)]],
            campaign_months |->
               [i \in DOMAIN cms |->
                   [id |-> i, product_id |-> cms[i][1], month_number |-> cms[i][2],
                    year |-> 2024,
                    campaign_name |-> ProductName(cms[i][1]) \o S_Campaign_
                                      \o IntToText(cms[i][2]) \o <<"/">> \o IntToText(2024)]],
            marketing_metrics |->
               [i \in DOMAIN mms |->
                   [id |-> i, campaign_month_id |-> mms[i],
                    impressions |-> Profile(1, i).impressions,
                    clicks      |-> Profile(1, i).clicks,
                    conversions |-> Profile(1, i).conversions,
                    revenue     |-> Profile(1, i).revenue]],
            budgets |->
               [i \in DOMAIN bs |->
                   [id |-> i, campaign_month_id |-> bs[i],
                    allocated_budget |-> Profile(1, i).allocated_budget,
                    actual_spend     |-> Profile(1, i).actual_spend]],
            sqlite_sequence |->
               <<[name |-> S_products, seq |-> Len(names)],
                 [name |-> S_campaign_months, seq |-> Len(cms)],
                 [name |-> S_marketing_metrics, seq |-> Len(mms)],
                 [name |-> S_budgets, seq |-> Len(bs)]>>] :
             names \in Upto({ProductName(1), P_lower}),
             cms \in Upto((1..max_rows) \X (1..NumMonths)),
             mms \in Upto(1..max_rows),
             bs \in Upto(1..max_rows)}
    IN  {st \in unchecked : SchemaAllows(st)}

InitSchema ==
    /\ impl = "root"
    /\ db = 0
    /\ store \in StoreContents(MaxRows)
    /\ call = NoCall
    /\ reply = NoReply
    /\ raised = FALSE
    /\ io = <<>>
    /\ db_before = 0
    /\ store_before = store
    /\ opens = 0
    /\ view_rows = <<>>
    /\ prev = NoPrev
    /\ tasks = [c \in Calls |-> IdleTask]
    /\ database_url = default_url(impl)
    /\ db_path = construct_db_path(impl, database_url)

NextSchema == ReadView

SpecSchema == InitSchema /\ [][NextSchema]_vars

----------------------------------------------------------------------------
(* SpecConc: tool invocations interleaved at their awaits                  *)
(*                                                                         *)
(* The tools are coroutines on one event loop.  An invocation runs without *)
(* interruption from one await to the next; the awaits are the connect of  *)
(* the first call and every statement executed on self.db.  The test       *)
(* `if not self.db` and the assignment `self.db = await connect(...)` are  *)
(* on opposite sides of an await in both programs.                         *)
(* Each invocation is followed through its steps on self.db: its pc, the   *)
(* statements it has left and the connections its statements ran on; what  *)
(* the replies hold is the subject of Spec.                                *)

\* the requests made of the interleaved server: one of each tool that reaches
\* the store, and two that are rejected before any await
ConcRequests ==
    {[op |-> "get_schema"],
     [op |-> "run_sql", query |-> Q_select_one],
     [op |-> "run_sql", query |-> Q_delete],
     [op |-> "get_campaign_metrics", product |-> P_lower, month |-> <<1>>, year |-> 2024],
     [op |-> "calculate_metric", product |-> P_lower, month |-> 1, metric |-> S_roas,
      year |-> 2024],
     [op |-> "calculate_metric", product |-> P_lower, month |-> 1, metric |-> <<>>,
      year |-> 2024]}

\* the checks in front of the try block answer the request: no await is reached
ReturnsBeforeAwait(prog, req) ==
    \/ req.op = "run_sql" /\ run_sql_guard(req.query) # "ok"
    \/ req.op = "calculate_metric"
          /\ metric_checks(prog, req.product, req.month, req.metric) # "ok"

\* statements the tool function awaits on self.db: get_schema reads the
\* catalog, then the columns and the sample of every table it lists; the
\* other tools execute one statement
Statements(req) ==
    LET keep(table_name) == ~is_system_table(table_name)
    IN  IF req.op = "get_schema" THEN 1 + 2 * Len(SelectSeq(CatalogTables, keep)) ELSE 1

InitConc ==
    /\ impl \in {"root", "server"}
    /\ db = 0
    /\ opens = 0
    /\ \E seed \in 1..NumSeeds : store = create_database(seed)
    /\ call = NoCall
    /\ reply = NoReply
    /\ raised = FALSE
    /\ io = <<>>
    /\ db_before = 0
    /\ store_before = store
    /\ view_rows = <<>>
    /\ prev = NoPrev
    /\ tasks = [c \in Calls |-> IdleTask]
    /\ database_url = default_url(impl)
    /\ db_path = construct_db_path(impl, database_url)

\* the dispatcher starts a tool function, which runs up to its first await:
\* the checks, then `if not self.db` and either the connect or the first
\* statement
Begin(c) ==
    /\ tasks[c].pc = "idle"
    /\ \E req \in ConcRequests :
          tasks' = [tasks EXCEPT ![c] =
              [pc |-> IF ReturnsBeforeAwait(impl, req) THEN "done"
                      ELSE IF db = 0 THEN "connect" ELSE "execute",
               req |-> req, left |-> Statements(req), handles |-> {}, failed |-> FALSE]]
    /\ UNCHANGED <<impl, db, store, call, reply, raised, io, db_before, store_before,
                   opens,
                   view_rows, prev, database_url, db_path>>

\* aiosqlite.connect completes: self.db is assigned the new connection, or
\* the exception reaches the except clause of the tool function, which
\* returns the error reply
Connect(c) ==
    /\ tasks[c].pc = "connect"
    /\ \E open_ok \in BOOLEAN :
          LET o == initialize_db(db, opens, store, open_ok)
          IN  /\ db' = o.db
              /\ opens' = o.opens
              /\ tasks' = [tasks EXCEPT ![c] =
                    IF o.exc THEN [@ EXCEPT !.pc = "done", !.failed = TRUE]
                    ELSE [@ EXCEPT !.pc = "execute"]]
    /\ UNCHANGED <<impl, store, call, reply, raised, io, db_before, store_before,
                   view_rows, prev, database_url, db_path>>

\* one statement awaited on self.db as it is now; after the last one the
\* tool function returns its reply
Execute(c) ==
    /\ tasks[c].pc = "execute"
    /\ tasks' = [tasks EXCEPT ![c] =
          [@ EXCEPT !.left = @ - 1,
                    !.handles = @ \cup {db},
                    !.pc = IF tasks[c].left = 1 THEN "done" ELSE "execute"]]
    /\ UNCHANGED <<impl, db, store, call, reply, raised, io, db_before, store_before,
                   opens,
                   view_rows, prev, database_url, db_path>>

\* the dispatcher hands the reply of a finished invocation to its caller
Return(c) ==
    /\ tasks[c].pc = "done"
    /\ tasks' = [tasks EXCEPT ![c] = IdleTask]
    /\ UNCHANGED <<impl, db, store, call, reply, raised, io, db_before, store_before,
                   opens,
                   view_rows, prev, database_url, db_path>>

NextConc ==
    \E c \in Calls :
        \/ Begin(c)
        \/ Connect(c)
        \/ Execute(c)
        \/ Return(c)

SpecConc == InitConc /\ [][NextConc]_vars

----------------------------------------------------------------------------
(* Claims about the view formulas                                          *)

IsZero(v) == ~v.isnull /\ v.num = 0

\* C7: a campaign month with actual_spend = 0 has roas, roi, cpc and cpm
\* equal to 0, and no computed column of any row is the NULL that SQLite
\* produces for a division by zero.
C7_ZeroSpendNoDivisionFault ==
    \A i \in 1..Len(view_rows) :
        LET r == view_rows[i]
        IN  /\ r.actual_spend = 0 =>
                /\ IsZero(r.roas)
                /\ IsZero(r.roi)
                /\ IsZero(r.cpc)
                /\ IsZero(r.cpm)
            /\ ~r.ctr_percentage.isnull
            /\ ~r.roas.isnull
            /\ ~r.roi.isnull
            /\ ~r.cpa.isnull
            /\ ~r.cpc.isnull
            /\ ~r.cpm.isnull

C7_Witness ==
    \E i \in 1..Len(view_rows) :
        /\ view_rows[i].actual_spend = 0
        /\ view_rows[i].revenue > 0
        /\ view_rows[i].clicks > 0
        /\ view_rows[i].impressions > 0
        /\ view_rows[i].conversions = 0

\* the formulas as the data model states them
RefCtr(r) ==
    IF r.impressions > 0 THEN Rat(r.clicks * 100, r.impressions) ELSE Rat(0, 1)
RefRoas(r) ==
    IF r.actual_spend > 0 THEN Rat(r.revenue, r.actual_spend) ELSE Rat(0, 1)
RefRoi(r) ==
    IF r.actual_spend > 0 THEN Rat(r.revenue - r.actual_spend, r.actual_spend) ELSE Rat(0, 1)
RefCpa(r) ==
    IF r.conversions > 0 /\ r.actual_spend > 0
    THEN Rat(r.actual_spend, r.conversions) ELSE Rat(0, 1)
RefCpc(r) ==
    IF r.clicks > 0 /\ r.actual_spend > 0
    THEN Rat(r.actual_spend, r.clicks) ELSE Rat(0, 1)
RefCpm(r) ==
    IF r.impressions > 0 /\ r.actual_spend > 0
    THEN Rat(r.actual_spend * 1000, r.impressions) ELSE Rat(0, 1)

\* nearest hundredth of a rational, as a count of hundredths
Hundredths(x) ==
    IF x.num >= 0 THEN (200 * x.num + x.den) \div (2 * x.den)
    ELSE -((200 * (-x.num) + x.den) \div (2 * x.den))

IsHundredths(v, h) == ~v.isnull /\ v.den = 100 /\ v.num = h

\* C8: for non-negative integer column values each of the six computed
\* columns is the reference formula under the reference guards, compared
\* as hundredths.
C8_ColumnsMatchReference ==
    \A i \in 1..Len(view_rows) :
        LET r == view_rows[i]
        IN  /\ IsHundredths(r.ctr_percentage, Hundredths(RefCtr(r)))
            /\ IsHundredths(r.roas, Hundredths(RefRoas(r)))
            /\ IsHundredths(r.roi, Hundredths(RefRoi(r)))
            /\ IsHundredths(r.cpa, Hundredths(RefCpa(r)))
            /\ IsHundredths(r.cpc, Hundredths(RefCpc(r)))
            /\ IsHundredths(r.cpm, Hundredths(RefCpm(r)))

C8_Witness ==
    \E i \in 1..Len(view_rows) :
        /\ view_rows[i].impressions = 3
        /\ view_rows[i].clicks = 2
        /\ view_rows[i].conversions = 3
        /\ view_rows[i].revenue = 1
        /\ view_rows[i].actual_spend = 2
        /\ view_rows[i].ctr_percentage = Rat(6667, 100)
        /\ view_rows[i].roi = Rat(-50, 100)
        /\ view_rows[i].cpm = Rat(66667, 100)

----------------------------------------------------------------------------
(* Claims about the tool invocations                                       *)

\* the environment made no store call of the last invocation fail
Healthy == \A i \in 1..Len(io) : ~io[i].fault

\* the trimmed, uppercased query starts with neither SELECT nor WITH
NotPermitted(q) ==
    LET u == upper(strip(q))
    IN  ~startswith(u, <<"S", "E", "L", "E", "C", "T">>) /\ ~startswith(u, <<"W", "I", "T", "H">>)

\* C1: a query whose trimmed, uppercased form starts with neither SELECT nor
\* WITH gets an error reply, and the invocation performs no store I/O: no
\* connect (self.db stays as it was) and no statement.
C1_RejectedQueryNeverTouchesStore ==
    (call.op = "run_sql" /\ NotPermitted(call.query)) =>
        /\ ~raised
        /\ reply.kind = "error"
        /\ io = <<>>
        /\ db = db_before

C1_Witness ==
    /\ call.op = "run_sql"
    /\ call.query = Q_delete_padded
    /\ reply.kind = "error"
    /\ db = 0

\* C2: whatever calls have been made, the store holds what was provisioned.
C2_StoreNeverMutated ==
    \E seed \in 1..NumSeeds : store = create_database(seed)

OpReplyKinds(op) ==
    CASE op = "get_schema" -> {"schema", "error"}
      [] op = "run_sql" -> {"data", "error"}
      [] op = "get_campaign_metrics" -> {"data", "error"}
      [] op = "calculate_metric" -> {"row", "error"}

\* C3: every invocation ends with a reply of the operation's success shape
\* or an error reply, never with an exception.
C3_AlwaysStructuredReply ==
    /\ ~raised
    /\ call # NoCall => reply.kind \in OpReplyKinds(call.op)

C3_Witness ==
    /\ call.op = "get_schema"
    /\ Len(io) = 1
    /\ io[1].ev = "connect"
    /\ ~io[1].ok
    /\ reply.kind = "error"
    /\ db = 0

AllowList ==
    {<<"r", "o", "a", "s">>, <<"r", "o", "i">>,
     <<"c", "t", "r", "_", "p", "e", "r", "c", "e", "n", "t", "a", "g", "e">>,
     <<"c", "p", "a">>, <<"c", "p", "c">>, <<"c", "p", "m">>}

ValidationMessages ==
    {<<"Invalid metric. Valid options: ">>,
     <<"product, month, and metric are required">>,
     <<"product, month, metric required">>}

\* C4: a metric outside the allow-list (compared without regard to case)
\* gets a validation error whatever the other parameters are, before the
\* store is consulted.
C4_InvalidMetricRejected ==
    (call.op = "calculate_metric" /\ lower(call.metric) \notin AllowList) =>
        /\ reply.kind = "error"
        /\ reply.error \in ValidationMessages
        /\ io = <<>>

\* C5: every metric lookup sent to the store projects a column of the
\* allow-list (compared without regard to case).
C5_InterpolatedColumnAllowListed ==
    \A i \in 1..Len(io) :
        io[i].stmt = "metric_lookup" => lower(io[i].text) \in AllowList

\* the key under which an allow-listed metric appears in a row
AllowListKey(metric) ==
    CASE lower(metric) = <<"r", "o", "a", "s">> -> "roas"
      [] lower(metric) = <<"r", "o", "i">> -> "roi"
      [] lower(metric) = <<"c", "p", "a">> -> "cpa"
      [] lower(metric) = <<"c", "p", "c">> -> "cpc"
      [] lower(metric) = <<"c", "p", "m">> -> "cpm"
      [] OTHER -> "ctr_percentage"

\* C6: for every row of the view, with the product and the metric in any
\* letter case, the lookup returns one flat mapping for that row holding the
\* metric under its allow-list name with the view's value (roas = 2.0 for
\* revenue 1000 and actual_spend 500).
C6_MetricLookupReturnsRow ==
    (/\ call.op = "calculate_metric"
     /\ lower(call.metric) \in AllowList
     /\ Healthy) =>
        LET view == campaign_performance(store)
        IN  \A j \in 1..Len(view) :
            LET r == view[j]
                k == AllowListKey(call.metric)
            IN  (/\ lower(r.product_name) = lower(call.product)
                 /\ r.month_number = call.month
                 /\ r.year = call.year) =>
                    /\ reply.kind = "row"
                    /\ DOMAIN reply.row =
                         {"product_name", "month_number", "year", "campaign_name",
                          "impressions", "clicks", "conversions", "revenue",
                          "actual_spend", k}
                    /\ reply.row[k] = r[k]
                    /\ reply.row.product_name = r.product_name
                    /\ reply.row.month_number = r.month_number
                    /\ reply.row.year = r.year
                    /\ (k = "roas" /\ r.revenue = 1000 /\ r.actual_spend = 500) =>
                            reply.row[k] = Rat(200, 100)

C6_Witness ==
    /\ call.op = "calculate_metric"
    /\ call.product = P_lower
    /\ call.metric = M_ROAS
    /\ reply.kind = "row"
    /\ reply.row.product_name = ProductName(1)
    /\ reply.row.revenue = 1000
    /\ reply.row.actual_spend = 500
    /\ reply.row.roas = Rat(200, 100)

\* a view row passes the filters an aggregate call applies
PassesFilters(r, c) ==
    /\ r.year = c.year
    /\ c.product # <<>> => lower(r.product_name) = lower(c.product)
    /\ truthy(c.month) => r.month_number = c.month[1]

\* C9: an aggregate call that no view row matches (in particular one with
\* no product, no month and a year without campaigns) returns
\* {data: [], row_count: 0}, not an error.
C9_EmptyAggregateIsSuccess ==
    (/\ call.op = "get_campaign_metrics"
     /\ Healthy
     /\ LET view == campaign_performance(store)
        IN  \A j \in 1..Len(view) : ~PassesFilters(view[j], call)) =>
        reply = [kind |-> "data", data |-> <<>>, row_count |-> 0]

C9_Witness ==
    /\ call.op = "get_campaign_metrics"
    /\ call.product = <<>>
    /\ call.month = None
    /\ call.year = 2025
    /\ Len(campaign_performance(store)) > 0
    /\ reply.kind = "data"
    /\ reply.data = <<>>

\* C10: a success reply of run_sql or of the aggregate has row_count equal
\* to the number of rows in data.
C10_RowCountIsLength ==
    (call # NoCall /\ call.op \in {"run_sql", "get_campaign_metrics"} /\ reply.kind = "data") =>
        reply.row_count = Len(reply.data)

C10_Witness ==
    /\ call.op = "run_sql"
    /\ reply.kind = "data"
    /\ Len(reply.data) >= 2
    /\ reply.row_count = Len(reply.data)

\* the names sqlite_master lists with type 'table'
CatalogTableNames ==
    {Catalog[i].name : i \in {j \in 1..Len(Catalog) : Catalog[j].type = "table"}}

\* C11: the tables mapping of a get_schema reply has exactly the catalog
\* tables whose name does not start with sqlite_, never one whose name
\* does, and a listed table that has columns has a non-empty columns entry.
C11_SchemaListsUserTables ==
    (call.op = "get_schema" /\ reply.kind = "schema") =>
        /\ DOMAIN reply.tables = {n \in CatalogTableNames : ~startswith(n, S_sqlite_)}
        /\ \A n \in DOMAIN reply.tables : ~startswith(n, S_sqlite_)
        /\ \A n \in DOMAIN reply.tables :
              Len(table_info(n)) > 0 => Len(reply.tables[n].columns) > 0

C11_Witness ==
    /\ call.op = "get_schema"
    /\ reply.kind = "schema"
    /\ S_sqlite_sequence \in CatalogTableNames
    /\ S_sqlite_sequence \notin DOMAIN reply.tables
    /\ S_budgets \in DOMAIN reply.tables
    /\ Len(reply.tables[S_budgets].columns) = 6

\* the sample fetch of table n was made by the last invocation and failed
SampleFailed(n) ==
    \E i \in 1..Len(io) : io[i].stmt = "sample" /\ io[i].text = n /\ io[i].fault

\* what get_schema returns for table n from the present state with no failure
SchemaReference(n) ==
    get_schema(impl, db, opens, store, TRUE, "none", <<>>).reply.tables[n]

\* C12: when the only store calls that fail during get_schema are sample
\* fetches, the reply has the success shape; a table whose sample fetch
\* failed keeps its columns and has no sample_data; every other table has
\* the columns and the sample_data (at most 3 rows) of a run with no failure.
C12_SampleFailureIsNotFatal ==
    (/\ call.op = "get_schema"
     /\ \A i \in 1..Len(io) : io[i].fault => io[i].stmt = "sample") =>
        /\ reply.kind = "schema"
        /\ \A n \in DOMAIN reply.tables :
              /\ reply.tables[n].columns = SchemaReference(n).columns
              /\ IF SampleFailed(n)
                 THEN ~reply.tables[n].sample_data.present
                 ELSE /\ reply.tables[n].sample_data = SchemaReference(n).sample_data
                      /\ reply.tables[n].sample_data.present
                      /\ Len(reply.tables[n].sample_data.rows) <= SampleLimit

C12_Witness ==
    /\ call.op = "get_schema"
    /\ reply.kind = "schema"
    /\ SampleFailed(S_campaign_months)
    /\ ~reply.tables[S_campaign_months].sample_data.present
    /\ Len(reply.tables[S_campaign_months].columns) = 9
    /\ reply.tables[S_products].sample_data.present
    /\ Len(reply.tables[S_products].sample_data.rows) = NumProducts

\* C13: a get_schema that follows a get_schema directly (so with no write
\* in between), neither with a failed store call, returns the same reply:
\* the first call leaves nothing behind but the connection.
C13_SchemaTwiceIsIdentical ==
    (/\ call.op = "get_schema"
     /\ reply.kind = "schema"
     /\ Healthy
     /\ prev.schema # NoReply) =>
        reply = prev.schema

C13_Witness ==
    /\ call.op = "get_schema"
    /\ reply.kind = "schema"
    /\ Healthy
    /\ io # <<>>
    /\ db_before # 0
    /\ prev.schema # NoReply
    /\ reply = prev.schema
    /\ Len(reply.tables[S_products].sample_data.rows) = NumProducts

\* C14: once self.db holds a connection, every step leaves it holding that
\* same connection: nothing resets, replaces or closes it.
C14_HandleMonotonic == [][db # 0 => db' = db]_vars

\* C15: however the in-flight invocations interleave at their awaits, the
\* process opens at most one connection, assigns self.db at most once, and
\* every statement of every invocation runs on that one connection.
C15_OpenedExactlyOnce ==
    /\ opens <= 1
    /\ \A c \in Calls : \A h \in tasks[c].handles : h = 1

\* the connects the last invocation attempted
ConnectAttempts == {i \in 1..Len(io) : io[i].ev = "connect"}

\* the last invocation attempted a connect and it failed
OpenFailed == \E i \in ConnectAttempts : ~io[i].ok

\* C16: an invocation whose connect fails leaves self.db unset, made exactly
\* one connect attempt and no statement, and returns an error reply; an
\* invocation that follows a failed connect and passes its checks attempts
\* the connect again, with the same outcome if it fails again.
C16_FailedOpenIsRetriedByNextCall ==
    /\ OpenFailed =>
          /\ db = 0
          /\ db_before = 0
          /\ Cardinality(ConnectAttempts) = 1
          /\ Len(io) = 1
          /\ ~raised
          /\ reply.kind = "error"
          /\ reply.error[2] = "unable to open database file"
    /\ (call # NoCall /\ prev.open_failed /\ ~ReturnsBeforeAwait(impl, call)) =>
          Cardinality(ConnectAttempts) = 1

C16_Witness ==
    /\ prev.open_failed
    /\ call.op = "get_campaign_metrics"
    /\ OpenFailed
    /\ Cardinality(ConnectAttempts) = 1
    /\ reply.kind = "error"
    /\ db = 0

\* the success shape of each tool
SuccessKind(op) ==
    IF op = "get_schema" THEN "schema"
    ELSE IF op = "calculate_metric" THEN "row"
    ELSE "data"

\* the last invocation was a valid call: arguments that pass the checks, a
\* statement the store accepts and, for the metric lookup, a row to return
ValidCall ==
    \/ call.op = "get_schema"
    \/ call.op = "get_campaign_metrics"
    \/ /\ call.op = "run_sql"
       /\ call.query \in {Q_select_view, Q_select_products_padded, Q_with_select, Q_select_one}
    \/ /\ call.op = "calculate_metric"
       /\ call.product # <<>>
       /\ call.month # 0
       /\ lower(call.metric) \in AllowList
       /\ LET view == campaign_performance(store)
          IN  \E j \in 1..Len(view) :
                 /\ lower(view[j].product_name) = lower(call.product)
                 /\ view[j].month_number = call.month
                 /\ view[j].year = call.year

\* a valid call on a healthy store that follows an error reply is served
ServedAfterError ==
    (prev.error /\ ValidCall /\ Healthy) => reply.kind = SuccessKind(call.op)

\* C17 as stated: a valid call after an error reply is served, and an
\* invocation that replies with an error leaves self.db and the store
\* exactly as they were when it started.
C17_ErrorLeavesHandleAndStore ==
    /\ ServedAfterError
    /\ reply.kind = "error" => (db = db_before /\ store = store_before)

\* C17 amended: a valid call after an error reply is served, and an
\* invocation that replies with an error leaves the store as it was and a
\* connection that was open in place; it may have opened the connection
\* itself before it failed.
C17_NoErrorIsFatal ==
    /\ ServedAfterError
    /\ reply.kind = "error" =>
          /\ store = store_before
          /\ db_before # 0 => db = db_before

C17_Witness ==
    /\ prev.error
    /\ call.op = "calculate_metric"
    /\ ValidCall
    /\ Healthy
    /\ db_before # 0
    /\ reply.kind = "row"

\* the conditions of the WHERE clause the last aggregate call executed
AppliedConditions ==
    UNION {{io[i].conds[k] : k \in 1..Len(io[i].conds)} :
             i \in {j \in 1..Len(io) : io[j].stmt = "aggregate"}}

\* a view row satisfies the year and every filter the caller supplied
MatchesSupplied(r, c) ==
    /\ r.year = c.year
    /\ c.product # <<>> => lower(r.product_name) = lower(c.product)
    /\ c.month # None => r.month_number = c.month[1]

\* C18: the WHERE clause of an aggregate call always has the year condition,
\* has the product_name condition exactly when a product is supplied and
\* the month_number condition exactly when a month is supplied, whatever
\* the supplied values; the reply holds exactly the view rows that satisfy
\* the year and the supplied filters.
C18_AggregateFiltersBySuppliedValues ==
    (call.op = "get_campaign_metrics" /\ reply.kind = "data") =>
        LET view == campaign_performance(store)
            want(r) == MatchesSupplied(r, call)
        IN  /\ "year = ?" \in AppliedConditions
            /\ "LOWER(product_name) = LOWER(?)" \in AppliedConditions <=> call.product # <<>>
            /\ "month_number = ?" \in AppliedConditions <=> call.month # None
            /\ Len(reply.data) = Len(SelectSeq(view, want))
            /\ {reply.data[i] : i \in 1..Len(reply.data)}
                  = {view[j] : j \in {k \in 1..Len(view) : want(view[k])}}

\* the replies that report a missing parameter
MissingParameterReplies ==
    {ErrorReply(<<"product, month, and metric are required">>),
     ErrorReply(<<"product, month, metric required">>)}

\* C19: a metric lookup returns the missing-parameter error exactly when
\* one of product, month and metric is missing (an empty text; the month is
\* an integer and always there), whatever the values supplied.
C19_MissingParameterOnlyWhenMissing ==
    call.op = "calculate_metric" =>
        (reply \in MissingParameterReplies <=> (call.product = <<>> \/ call.metric = <<>>))

\* C20: a metric lookup with a product, a month and an allow-listed metric
\* that no view row matches returns an error reply whose message holds the
\* requested product, month and year, and no row.
C20_NoMatchIsNotFound ==
    (/\ call.op = "calculate_metric"
     /\ Healthy
     /\ call.product # <<>>
     /\ call.month # 0
     /\ lower(call.metric) \in AllowList
     /\ LET view == campaign_performance(store)
        IN  \A j \in 1..Len(view) :
               ~(/\ lower(view[j].product_name) = lower(call.product)
                 /\ view[j].month_number = call.month
                 /\ view[j].year = call.year)) =>
        /\ reply.kind = "error"
        /\ Len(reply.error) = 1
        /\ LET text == reply.error[1]
               p == call.product
               m == IntToText(call.month)
               y == IntToText(call.year)
           IN  \E i \in 1..(Len(text) + 1 - Len(p)) :
                  /\ SubSeq(text, i, i + Len(p) - 1) = p
                  /\ \E j \in (i + Len(p))..(Len(text) + 1 - Len(m)) :
                        /\ SubSeq(text, j, j + Len(m) - 1) = m
                        /\ \E k \in (j + Len(m))..(Len(text) + 1 - Len(y)) :
                              SubSeq(text, k, k + Len(y) - 1) = y

C20_Witness ==
    /\ call.op = "calculate_metric"
    /\ Healthy
    /\ call.product = P_unknown
    /\ call.month = 1
    /\ call.metric = M_ROAS
    /\ call.year = 2024
    /\ Len(campaign_performance(store)) > 0
    /\ reply.kind = "error"
    /\ Len(reply.error[1]) > Len(P_unknown)

\* a character of an SQL keyword or identifier
IsWordChar(c) ==
    \/ IndexOf(c, UpperChars) > 0
    \/ IndexOf(c, LowerChars) > 0
    \/ c \in {"0", "1", "2", "3", "4", "5", "6", "7", "8", "9", "_"}

\* the leading token of a query: the longest run of word characters at the
\* start of the trimmed text, in upper case
LeadingToken(q) ==
    LET t == strip(q)
        stops == {i \in 1..Len(t) : ~IsWordChar(t[i])}
        n == IF stops = {} THEN Len(t)
             ELSE (CHOOSE i \in stops : \A j \in stops : i <= j) - 1
    IN  upper(SubSeq(t, 1, n))

EmptyQueryError ==
    ErrorReply(<<IF impl = "root" THEN "Empty query provided" ELSE "No query provided">>)

DisallowedStatementError ==
    ErrorReply(<<IF impl = "root" THEN "Only SELECT and WITH queries are allowed"
                 ELSE "Only SELECT queries are allowed">>)

\* C21: run_sql decides on the leading token of the trimmed query, whatever
\* the surrounding whitespace and the letter case: an empty query gets the
\* empty-query error and no store I/O, a query whose uppercased leading token
\* is SELECT or WITH is passed on to the store (it gets neither guard error),
\* and a query with any other leading token gets the disallowed-statement
\* error and no store I/O.
C21_GuardDecidesOnLeadingToken ==
    call.op = "run_sql" =>
        LET token == LeadingToken(call.query)
        IN  IF strip(call.query) = <<>>
            THEN reply = EmptyQueryError /\ io = <<>>
            ELSE IF token \in {<<"S", "E", "L", "E", "C", "T">>, <<"W", "I", "T", "H">>}
            THEN reply \notin {EmptyQueryError, DisallowedStatementError} /\ io # <<>>
            ELSE reply = DisallowedStatementError /\ io = <<>>

\* the locator without its leading sqlite:/// or sqlite://, or as it is
Unprefixed(locator) ==
    IF startswith(locator, S_sqlite_3)
    THEN SubSeq(locator, Len(S_sqlite_3) + 1, Len(locator))
    ELSE IF startswith(locator, S_sqlite_2)
    THEN SubSeq(locator, Len(S_sqlite_2) + 1, Len(locator))
    ELSE locator

\* C22: every connect is made with the configured locator less a leading
\* sqlite:/// or sqlite:// when it starts with one, and with the locator
\* itself, character for character, when it does not.
C22_PathIsLocatorWithoutPrefix ==
    \A i \in ConnectAttempts : io[i].text = Unprefixed(database_url)

\* the view rows that show the campaign month cm
RowsOf(view, cm) ==
    {i \in 1..Len(view) :
        /\ view[i].month_number = cm.month_number
        /\ view[i].year = cm.year
        /\ \E k \in 1..Len(store.products) :
              /\ store.products[k].id = cm.product_id
              /\ store.products[k].name = view[i].product_name}

HasSiblings(cm) ==
    /\ \E k \in 1..Len(store.marketing_metrics) :
          store.marketing_metrics[k].campaign_month_id = cm.id
    /\ \E k \in 1..Len(store.budgets) : store.budgets[k].campaign_month_id = cm.id

\* the (product, month, year) coordinates calculate_metric may be asked for
Coordinates == (ProductArgs \ {<<>>}) \X (1..NumMonths) \X YearArgs

\* C23: whatever the tables hold, the view as read has exactly one row for
\* each campaign month that has a marketing_metrics row and a budgets row
\* and none for a campaign month without one of them, and at most one view
\* row matches a (product, month, year) coordinate of calculate_metric.
C23_OneViewRowPerCampaignMonth ==
    view_rows # <<>> =>
    LET view == view_rows
    IN  /\ \A j \in 1..Len(store.campaign_months) :
              LET cm == store.campaign_months[j]
              IN  Cardinality(RowsOf(view, cm)) = IF HasSiblings(cm) THEN 1 ELSE 0
        /\ \A c \in Coordinates :
              Cardinality({i \in 1..Len(view) :
                              /\ lower(view[i].product_name) = lower(c[1])
                              /\ view[i].month_number = c[2]
                              /\ view[i].year = c[3]}) <= 1

====
